---------------------------- MODULE Spec2Model ----------------------------
(***************************************************************************)
(* A model of run-command-on-git-revisions (src/main.go).                  *)
(*                                                                         *)
(* The program is one control flow: main parses the flags -s, -e, -p and   *)
(* the trailing command, validates and defaults them, calls                *)
(* runCommandOnGitRevisions and turns its error into the exit status.      *)
(* runCommandOnGitRevisions opens the repository at the path it is given   *)
(* and returns.  The command line, the process' working directory and the  *)
(* repository on disk are the environment: Init draws them from small sets.*)
(***************************************************************************)
EXTENDS Integers, Sequences, FiniteSets, TLC

\* ---------------------------------------------------------------- bounds
\* Number of commits of the repository's (linear) history.
NumRevs == 3
\* Longest trailing command (number of positional arguments).
MaxArgs == 2

\* ----------------------------------------------------------- environment
\* Names of the commits of the history, oldest first.
RevNames == <<"A", "B", "C", "D", "E", "F">>
Revs == {RevNames[i] : i \in 1..NumRevs}

\* Directories a -p flag or the working directory can name.
Paths == {"/repo", "/work"}
\* Words a trailing command is made of.
Words == {"echo", "ok"}

\* What the three string flags can hold after flag.Parse ("" is the default).
StartValues == Revs \cup {""}
EndValues == Revs \cup {"HEAD", ""}
PathValues == Paths \cup {""}
ArgValues == UNION {[1..n -> Words] : n \in 0..MaxArgs}

\* The error value nil, and an error as its chain of messages (outermost first).
Nil == <<>>

VARIABLES
    cmdline,    \* the flags and positional arguments as flag.Parse read them
    cwd,        \* the process' current working directory
    getwdOk,    \* whether os.Getwd succeeds
    repos,      \* the paths at which git.PlainOpen finds a repository
    head,       \* the commit the repository has checked out (HEAD)
    worktree,   \* the commit whose tree the caller's working tree holds
    pc,         \* main's position
    startFlag,  \* *startFlag
    endFlag,    \* *endFlag
    pathFlag,   \* *pathFlag
    args,       \* main's args
    calls,      \* the calls of runCommandOnGitRevisions, with their arguments
    opened,     \* the paths handed to git.PlainOpen
    executed,   \* the user-command executions, one entry per process started
    err,        \* the error main got back from runCommandOnGitRevisions
    logged,     \* the fatal messages written by log.Fatal / log.Fatalf
    exitCode    \* the process' exit status (meaningful when pc = "exited")

vars == <<cmdline, cwd, getwdOk, repos, head, worktree, pc, startFlag, endFlag,
          pathFlag, args, calls, opened, executed, err, logged, exitCode>>

env == <<cmdline, cwd, getwdOk, repos>>
repoState == <<repos, head, worktree>>

\* --------------------------------------------------- repository history
\* Position of a commit in the history (1 is the oldest).
IndexOf(rev) == CHOOSE i \in 1..NumRevs : RevNames[i] = rev

\* A symbolic name resolved to a commit; "HEAD" is the checked-out commit.
ResolveRevision(name) == IF name = "HEAD" THEN head ELSE name

\* a is an ancestor of, or equal to, b.
IsAncestor(a, b) == IndexOf(a) <= IndexOf(b)

\* The revisions of the range start..end, oldest first.
WalkAncestors(start, end) ==
    [i \in 1..(IndexOf(end) - IndexOf(start) + 1) |-> RevNames[IndexOf(start) + i - 1]]

\* ------------------------------------------------------------ the program
\* git.PlainOpen(path): nil when a repository is found at path.
PlainOpen(path) == IF path \in repos THEN Nil ELSE <<"repository does not exist">>

\* fmt.Errorf("opening repo: %w", e): e wrapped in one more message.
Errorf(msg, e) == <<msg>> \o e

\* Faulty variants of runCommandOnGitRevisions: the open error dropped, and a
\* result that also depends on the range.
runCommandOnGitRevisions_ignoreErr(start, end, path, cmd) == Nil

runCommandOnGitRevisions_rangeCheck(start, end, path, cmd) ==
    IF PlainOpen(path) # Nil THEN Errorf("opening repo", PlainOpen(path))
    ELSE IF start = end THEN <<"empty range">>
    ELSE Nil

\* runCommandOnGitRevisions: the error it returns.
runCommandOnGitRevisions(start, end, path, cmd) ==
    IF PlainOpen(path) # Nil THEN Errorf("opening repo", PlainOpen(path))
    ELSE Nil

\* log.Fatal / log.Fatalf: write the message, then os.Exit(1).
Fatal(msg) ==
    /\ logged' = Append(logged, msg)
    /\ exitCode' = 1
    /\ pc' = "exited"

Init ==
    /\ cmdline \in [s : StartValues, e : EndValues, p : PathValues, args : ArgValues]
    /\ cwd \in Paths
    /\ getwdOk \in BOOLEAN
    /\ repos \in SUBSET PathValues
    /\ head \in Revs
    /\ worktree = head
    /\ pc = "checkStart"
    /\ startFlag = cmdline.s
    /\ endFlag = cmdline.e
    /\ pathFlag = cmdline.p
    /\ args = <<>>
    /\ calls = <<>>
    /\ opened = <<>>
    /\ executed = <<>>
    /\ err = Nil
    /\ logged = <<>>
    /\ exitCode = 0

\* Faulty variant of CheckStart: the check of the start flag left out.
CheckStart_noCheck ==
    /\ pc = "checkStart"
    /\ pc' = "defaultEnd"
    /\ UNCHANGED <<logged, exitCode>>
    /\ UNCHANGED <<env, repoState, startFlag, endFlag, pathFlag, args, calls,
                   opened, executed, err>>

\* if *startFlag == "" { log.Fatalf("start flag missing") }
CheckStart ==
    /\ pc = "checkStart"
    /\ IF startFlag = ""
         THEN Fatal("start flag missing")
         ELSE pc' = "defaultEnd" /\ UNCHANGED <<logged, exitCode>>
    /\ UNCHANGED <<env, repoState, startFlag, endFlag, pathFlag, args, calls,
                   opened, executed, err>>

\* Faulty variant of DefaultEnd: the end flag always set to "HEAD".
DefaultEnd_always ==
    /\ pc = "defaultEnd"
    /\ endFlag' = "HEAD"
    /\ pc' = "defaultPath"
    /\ UNCHANGED <<env, repoState, startFlag, pathFlag, args, calls, opened,
                   executed, err, logged, exitCode>>

\* if *endFlag == "" { *endFlag = "HEAD" }
DefaultEnd ==
    /\ pc = "defaultEnd"
    /\ endFlag' = IF endFlag = "" THEN "HEAD" ELSE endFlag
    /\ pc' = "defaultPath"
    /\ UNCHANGED <<env, repoState, startFlag, pathFlag, args, calls, opened,
                   executed, err, logged, exitCode>>

\* if *pathFlag == "" { here, err := os.Getwd();
\*                      if err != nil { log.Fatalf(...); *pathFlag = here } }
\* The assignment follows log.Fatalf inside the error branch: log.Fatalf ends
\* the process, so no path of the code assigns *pathFlag.
DefaultPath ==
    /\ pc = "defaultPath"
    /\ IF pathFlag = "" /\ ~getwdOk
         THEN Fatal("error getting cwd")
         ELSE pc' = "checkArgs" /\ UNCHANGED <<logged, exitCode>>
    /\ UNCHANGED <<env, repoState, startFlag, endFlag, pathFlag, args, calls,
                   opened, executed, err>>

\* Faulty variant of CheckArgs: the check of the positional arguments left out.
CheckArgs_noCheck ==
    /\ pc = "checkArgs"
    /\ args' = cmdline.args
    /\ pc' = "call"
    /\ UNCHANGED <<logged, exitCode>>
    /\ UNCHANGED <<env, repoState, startFlag, endFlag, pathFlag, calls, opened,
                   executed, err>>

\* args := flag.Args(); if len(args) == 0 { log.Fatalf("no command specified") }
CheckArgs ==
    /\ pc = "checkArgs"
    /\ args' = cmdline.args
    /\ IF Len(cmdline.args) = 0
         THEN Fatal("no command specified")
         ELSE pc' = "call" /\ UNCHANGED <<logged, exitCode>>
    /\ UNCHANGED <<env, repoState, startFlag, endFlag, pathFlag, calls, opened,
                   executed, err>>

\* Faulty variant of Call: the start revision checked out in place before returning.
Call_checkout ==
    /\ pc = "call"
    /\ calls' = Append(calls, [start |-> startFlag, end |-> endFlag,
                               path |-> pathFlag, args |-> args])
    /\ opened' = Append(opened, pathFlag)
    /\ err' = runCommandOnGitRevisions(startFlag, endFlag, pathFlag, args)
    /\ head' = IF PlainOpen(pathFlag) = Nil THEN startFlag ELSE head
    /\ worktree' = IF PlainOpen(pathFlag) = Nil THEN startFlag ELSE worktree
    /\ pc' = "checkErr"
    /\ UNCHANGED <<env, startFlag, endFlag, pathFlag, args, executed, logged,
                   exitCode>>

\* err := runCommandOnGitRevisions(*startFlag, *endFlag, *pathFlag, args):
\* the call and the whole body of the function, which hands path to
\* git.PlainOpen, discards the repository and starts no process.
Call ==
    /\ pc = "call"
    /\ calls' = Append(calls, [start |-> startFlag, end |-> endFlag,
                               path |-> pathFlag, args |-> args])
    /\ opened' = Append(opened, pathFlag)
    /\ err' = runCommandOnGitRevisions(startFlag, endFlag, pathFlag, args)
    /\ pc' = "checkErr"
    /\ UNCHANGED <<env, repoState, startFlag, endFlag, pathFlag, args, executed,
                   logged, exitCode>>

\* if err != nil { log.Fatal(err) }, then main returns: exit status 0.
CheckErr ==
    /\ pc = "checkErr"
    /\ IF err # Nil
         THEN Fatal(err[1])
         ELSE pc' = "exited" /\ exitCode' = 0 /\ UNCHANGED logged
    /\ UNCHANGED <<env, repoState, startFlag, endFlag, pathFlag, args, calls,
                   opened, executed, err>>

Next ==
    \/ CheckStart
    \/ DefaultEnd
    \/ DefaultPath
    \/ CheckArgs
    \/ Call
    \/ CheckErr

Spec == Init /\ [][Next]_vars

\* ------------------------------------------------------------ the claims
\* The range a call's start and end name, once resolved against the history.
RangeStart(c) == ResolveRevision(c.start)
RangeEnd(c) == ResolveRevision(c.end)

\* C1: when the repository opens and start..end resolves to n revisions, the
\* finished run has executed the user command exactly once per resolved
\* revision, oldest first (n executions in all).
C1_OncePerRevision ==
    \A i \in 1..Len(calls) :
        LET c == calls[i]
            revs == WalkAncestors(RangeStart(c), RangeEnd(c))
        IN  (/\ pc = "exited"
             /\ PlainOpen(c.path) = Nil
             /\ IsAncestor(RangeStart(c), RangeEnd(c)))
            => /\ Len(executed) = Len(revs)
               /\ \A k \in 1..Len(revs) : executed[k].revision = revs[k]

\* C2: when opening the repository at the given path fails,
\* runCommandOnGitRevisions returns a non-nil error, main ends fatally with a
\* non-zero exit status, and no command is executed at any point of the run.
C2_OpenFailureAborts ==
    \A i \in 1..Len(calls) :
        PlainOpen(calls[i].path) # Nil
        => /\ err # Nil
           /\ executed = <<>>
           /\ pc \in {"checkErr", "exited"}
           /\ pc = "exited" => (exitCode # 0 /\ logged = <<"opening repo">>)

C2_Witness ==
    /\ pc = "exited"
    /\ calls # <<>>
    /\ PlainOpen(calls[1].path) # Nil
    /\ exitCode = 1

\* C3: when -p is not given and os.Getwd succeeds, the path handed to
\* runCommandOnGitRevisions and to git.PlainOpen is the current working
\* directory, not the empty string.
C3_PathDefaultsToCwd ==
    (cmdline.p = "" /\ getwdOk)
    => /\ \A i \in 1..Len(calls) : calls[i].path = cwd
       /\ \A i \in 1..Len(opened) : opened[i] = cwd

\* C4: when start is not an ancestor of (or equal to) end, the run ends with
\* a non-zero exit status and executes no command.
C4_NotAncestorFails ==
    \A i \in 1..Len(calls) :
        (pc = "exited" /\ ~IsAncestor(RangeStart(calls[i]), RangeEnd(calls[i])))
        => (exitCode # 0 /\ executed = <<>>)

\* C5: whenever the start flag is empty the program ends fatally, with a
\* non-zero exit status, before the repository is opened and before any
\* command is run, whatever -e, -p and the positional arguments are.
C5_StartRequired ==
    cmdline.s = ""
    => /\ pc \in {"checkStart", "exited"}
       /\ calls = <<>>
       /\ opened = <<>>
       /\ executed = <<>>
       /\ pc = "exited" => (exitCode # 0 /\ logged = <<"start flag missing">>)

C5_Witness ==
    /\ cmdline.s = ""
    /\ cmdline.e # ""
    /\ cmdline.p \in repos
    /\ cmdline.args # <<>>
    /\ pc = "exited"
    /\ exitCode = 1

\* C6: whenever -s is set and no positional argument is given, the program
\* ends fatally with a non-zero exit status, runCommandOnGitRevisions is never
\* called and the repository is never opened.
C6_CommandRequired ==
    (cmdline.s # "" /\ cmdline.args = <<>>)
    => /\ pc \notin {"call", "checkErr"}
       /\ calls = <<>>
       /\ opened = <<>>
       /\ pc = "exited" => (exitCode # 0 /\ logged # <<>>)

C6_Witness ==
    /\ cmdline.s # ""
    /\ cmdline.args = <<>>
    /\ cmdline.p \in repos
    /\ pc = "exited"
    /\ logged = <<"no command specified">>
    /\ exitCode = 1

\* C7: the end revision handed to runCommandOnGitRevisions is "HEAD" when -e
\* is empty, and the value of -e unchanged otherwise.
C7_EndDefaultsToHead ==
    \A i \in 1..Len(calls) :
        calls[i].end = IF cmdline.e = "" THEN "HEAD" ELSE cmdline.e

C7_Witness ==
    /\ calls # <<>>
    /\ cmdline.e = ""
    /\ calls[1].end = "HEAD"

\* C9: no step of a run changes the repository, its checked-out commit or the
\* caller's working tree.
C9_RepositoryUntouched == [][repoState' = repoState]_vars

C9_Witness ==
    /\ pc = "exited"
    /\ exitCode = 0
    /\ opened # <<>>
    /\ calls[1].start # head

\* C10: runCommandOnGitRevisions returns nil exactly when the repository opens
\* at the path it is given, any other start, end and command give the same
\* result for that path and repository, and the exit status of a run whose
\* flags validate is decided by the path alone.
C10_OutcomeDependsOnPathOnly ==
    \A i \in 1..Len(calls) :
        LET c == calls[i] IN
        /\ (err = Nil) <=> (PlainOpen(c.path) = Nil)
        /\ \A s \in StartValues, e \in EndValues, a \in ArgValues :
               runCommandOnGitRevisions(s, e, c.path, a) = err
        /\ pc = "exited" => (exitCode = IF PlainOpen(c.path) = Nil THEN 0 ELSE 1)

C10_Witness ==
    /\ pc = "exited"
    /\ calls # <<>>
    /\ calls[1].start = calls[1].end
    /\ err = Nil
    /\ exitCode = 0

=============================================================================
